---------------------------- MODULE Spec2Model ----------------------------
(***************************************************************************)
(* Model of agwc (src/main.go): the ISO-8601 duration parser, the interval *)
(* builder parseTimeRange, the per-property series assembly of             *)
(* getWeatherData and the hourly alignment loop of display.                *)
(*                                                                         *)
(* Scaling.  Go's int64 / time.Duration are 64 bits wide and count         *)
(* nanoseconds.  Here they are IntBits wide and count seconds, so that     *)
(* time.Second = 1, time.Minute = 60, time.Hour = 3600 and every product   *)
(* the code forms can still wrap around.  A time.Time is the pair          *)
(* (day number since 1970-01-01, second of the day), always in UTC.        *)
(***************************************************************************)
EXTENDS Integers, Sequences, FiniteSets, TLC

(***************************************************************************)
(* Bounds of the model.                                                    *)
(***************************************************************************)
IntBits == 16          \* width of the modelled int64 / time.Duration
MaxLen == 5            \* longest exhaustively enumerated duration string
MaxPts == 2            \* longest series handed to display
MaxRaw == 2            \* longest upstream value list of one property
MaxHalfHours == 6      \* clock instants are Base + k half hours, k <= this

(***************************************************************************)
(* Fixed-width integers.                                                   *)
(***************************************************************************)
Pow2(n) == 2 ^ n
MaxInt == Pow2(IntBits - 1) - 1
\* two's complement wrap-around of a Go int64 product
Wrap(x) == ((x + Pow2(IntBits - 1)) % Pow2(IntBits)) - Pow2(IntBits - 1)

Second == 1
Minute == 60
Hour == 3600
SecondsPerDay == 86400

(***************************************************************************)
(* Strings are sequences of one-character strings.                         *)
(***************************************************************************)
Digits == {"0", "1", "2", "3", "4", "5", "6", "7", "8", "9"}
DigitVal(c) ==
  CASE c = "0" -> 0 [] c = "1" -> 1 [] c = "2" -> 2 [] c = "3" -> 3
    [] c = "4" -> 4 [] c = "5" -> 5 [] c = "6" -> 6 [] c = "7" -> 7
    [] c = "8" -> 8 [] c = "9" -> 9

\* strconv.ParseInt(str, 10, 64) on a non-empty all-digit string: the value,
\* or a range error when it does not fit the integer type
RECURSIVE ParseIntFrom(_, _, _)
ParseIntFrom(str, i, acc) ==
  IF i > Len(str) THEN [err |-> FALSE, val |-> acc]
  ELSE LET d == DigitVal(str[i]) IN
       IF acc > (MaxInt - d) \div 10 THEN [err |-> TRUE, val |-> MaxInt]
       ELSE ParseIntFrom(str, i + 1, acc * 10 + d)
ParseInt(str) == ParseIntFrom(str, 1, 0)

(***************************************************************************)
(* iso8601DurationMatcher: the regular expression                          *)
(*   ^P(\d+Y)?(\d+M)?(\d+D)?(T(\d+H)?(\d+M)?(\d+S)?)?$|^P(\d+)W$           *)
(* matched as the backtracking engine does: each optional group is tried   *)
(* greedily at the current position.                                       *)
(***************************************************************************)
\* position just after the longest run of digits starting at i
RECURSIVE DigitRunEnd(_, _)
DigitRunEnd(s, i) ==
  IF i <= Len(s) /\ s[i] \in Digits THEN DigitRunEnd(s, i + 1) ELSE i

\* MatchComp with \d* in place of \d+: a designator without digits matches
MatchCompNoDigits(s, i, ch) ==
  LET e == DigitRunEnd(s, i) IN
  IF e <= Len(s) /\ s[e] = ch
  THEN [str |-> SubSeq(s, i, e - 1), next |-> e + 1]
  ELSE [str |-> <<>>, next |-> i]

\* the group ((\d+)<ch>)? tried at position i
MatchComp(s, i, ch) ==
  LET e == DigitRunEnd(s, i) IN
  IF e > i /\ e <= Len(s) /\ s[e] = ch
  THEN [str |-> SubSeq(s, i, e - 1), next |-> e + 1]
  ELSE [str |-> <<>>, next |-> i]

NoMatch == [matched |-> FALSE, numYears |-> <<>>, numMonths |-> <<>>,
            numDays |-> <<>>, numHours |-> <<>>, numMinutes |-> <<>>,
            numSeconds |-> <<>>, numWeeks |-> <<>>]

\* the group (T(\d+H)?(\d+M)?(\d+S)?)? tried at position i
MatchClock(s, i) ==
  IF i <= Len(s) /\ s[i] = "T"
  THEN LET h == MatchComp(s, i + 1, "H")
           mi == MatchComp(s, h.next, "M")
           sc == MatchComp(s, mi.next, "S")
       IN [numHours |-> h.str, numMinutes |-> mi.str, numSeconds |-> sc.str,
           next |-> sc.next]
  ELSE [numHours |-> <<>>, numMinutes |-> <<>>, numSeconds |-> <<>>, next |-> i]

\* the groups (\d+Y)?(\d+M)?(\d+D)? tried at position i
MatchDate(s, i) ==
  LET y == MatchComp(s, i, "Y")
      mo == MatchComp(s, y.next, "M")
      d == MatchComp(s, mo.next, "D")
  IN [numYears |-> y.str, numMonths |-> mo.str, numDays |-> d.str, next |-> d.next]

\* the first alternative ends with "$"
GeneralGroups(s, date, clock) ==
  IF clock.next = Len(s) + 1
  THEN [matched |-> TRUE, numYears |-> date.numYears, numMonths |-> date.numMonths,
        numDays |-> date.numDays, numHours |-> clock.numHours,
        numMinutes |-> clock.numMinutes, numSeconds |-> clock.numSeconds,
        numWeeks |-> <<>>]
  ELSE NoMatch

MatchGeneralFrom(s, date) == GeneralGroups(s, date, MatchClock(s, date.next))

\* first alternative of the pattern
MatchGeneral(s) ==
  IF Len(s) = 0 \/ s[1] # "P" THEN NoMatch
  ELSE MatchGeneralFrom(s, MatchDate(s, 2))

WeekGroups(s, w) ==
  IF w.str # <<>> /\ w.next = Len(s) + 1
  THEN [NoMatch EXCEPT !.matched = TRUE, !.numWeeks = w.str]
  ELSE NoMatch

\* second alternative of the pattern
MatchWeek(s) ==
  IF Len(s) = 0 \/ s[1] # "P" THEN NoMatch
  ELSE WeekGroups(s, MatchComp(s, 2, "W"))

FirstMatch(s, general) == IF general.matched THEN general ELSE MatchWeek(s)

\* iso8601DurationMatcher.FindStringSubmatch(s): leftmost-first alternation
FindStringSubmatch(s) == FirstMatch(s, MatchGeneral(s))

ZeroDuration == [years |-> 0, months |-> 0, days |-> 0,
                 hours |-> 0, minutes |-> 0, seconds |-> 0]

DurationError(e) == [err |-> e, d |-> ZeroDuration]

\* one "if xstr != "" { duration.x, err = strconv.ParseInt(xstr, 10, 64) }"
Field(str) == IF str = <<>> THEN [err |-> FALSE, val |-> 0] ELSE ParseInt(str)

WeekDays(weeks) == Wrap(7 * weeks)

\* lines 558-565, weeks being what ParseInt made of weekstr
WeekDuration(weeks) ==
  IF weeks.err THEN DurationError("could not parse week value")
  ELSE [err |-> "", d |-> [ZeroDuration EXCEPT !.days = WeekDays(weeks.val)]]

\* lines 567-613, each argument being what ParseInt made of a component
GeneralDuration(y, mo, d, h, mi, sc) ==
  IF y.err THEN DurationError("could not parse year value")
  ELSE IF mo.err THEN DurationError("could not parse month value")
  ELSE IF d.err THEN DurationError("could not parse day value")
  ELSE IF h.err THEN DurationError("could not parse hour value")
  ELSE IF mi.err THEN DurationError("could not parse minute value")
  ELSE IF sc.err THEN DurationError("could not parse second value")
  ELSE [err |-> "",
        d |-> [years |-> y.val, months |-> mo.val, days |-> d.val,
               hours |-> h.val, minutes |-> mi.val, seconds |-> sc.val]]

\* lines 545-613, m being the submatches
DurationFromMatch(m) ==
  IF ~m.matched THEN DurationError("not a valid iso8601 duration")
  ELSE IF m.numWeeks # <<>> THEN WeekDuration(ParseInt(m.numWeeks))
  ELSE GeneralDuration(Field(m.numYears), Field(m.numMonths), Field(m.numDays),
                       Field(m.numHours), Field(m.numMinutes), Field(m.numSeconds))

\* parseISO8601Duration(s): [err, d]; err = "" is Go's nil error
parseISO8601Duration(s) == DurationFromMatch(FindStringSubmatch(s))

(***************************************************************************)
(* time.Time: [day, sec], 0 <= sec < SecondsPerDay.                        *)
(***************************************************************************)
Before(a, b) == a.day < b.day \/ (a.day = b.day /\ a.sec < b.sec)
After(a, b) == Before(b, a)
Equal(a, b) == a.day = b.day /\ a.sec = b.sec

\* t.Add(d), d a time.Duration in seconds
Add(t, d) ==
  LET total == t.sec + d IN
  [day |-> t.day + (total \div SecondsPerDay), sec |-> total % SecondsPerDay]

\* t.Truncate(d) for a d that divides the day
Truncate(t, d) == [day |-> t.day, sec |-> t.sec - (t.sec % d)]

\* t.Round(0): strips the monotonic clock reading, which [day, sec] lacks
Round0(t) == [day |-> t.day, sec |-> t.sec]

\* proleptic Gregorian calendar: day number of the civil date y-m-d
DaysFromCivil(y, m, d) ==
  LET yy == IF m <= 2 THEN y - 1 ELSE y
      era == yy \div 400
      yoe == yy - era * 400
      mp == IF m > 2 THEN m - 3 ELSE m + 9
      doy == ((153 * mp + 2) \div 5) + d - 1
      doe == yoe * 365 + (yoe \div 4) - (yoe \div 100) + doy
  IN era * 146097 + doe - 719468

\* t.Date(): the civil date of a day number
CivilFromDays(z) ==
  LET zz == z + 719468
      era == zz \div 146097
      doe == zz - era * 146097
      yoe == (doe - (doe \div 1460) + (doe \div 36524) - (doe \div 146096)) \div 365
      doy == doe - (365 * yoe + (yoe \div 4) - (yoe \div 100))
      mp == (5 * doy + 2) \div 153
      d == doy - ((153 * mp + 2) \div 5) + 1
      m == IF mp < 10 THEN mp + 3 ELSE mp - 9
  IN [year |-> yoe + era * 400 + (IF m <= 2 THEN 1 ELSE 0), month |-> m, day |-> d]

\* t.AddDate(years, months, days): Date(year+years, month+months, day+days,
\* clock unchanged), with month and day overflow normalised by time.Date
AddDate(t, years, months, days) ==
  LET c == CivilFromDays(t.day)
      m0 == (c.month + months) - 1
      y == c.year + years + (m0 \div 12)
      m == (m0 % 12) + 1
  IN [day |-> DaysFromCivil(y, m, 1) + (c.day + days - 1), sec |-> t.sec]

\* time.Duration(n) * unit, in wrapping integer arithmetic
DurationOf(n, unit) == Wrap(n * unit)

applyISO8601Duration(t, d) ==
  Add(Add(Add(AddDate(t, d.years, d.months, d.days),
              DurationOf(d.hours, Hour)),
          DurationOf(d.minutes, Minute)),
      DurationOf(d.seconds, Second))

\* compareTimeToRange without the test.Equal(end) disjunct
compareTimeToRangeClosed(test, start, end) ==
  IF Before(test, start) THEN -1
  ELSE IF After(test, end) THEN 1
  ELSE 0

\* negative if test is before start, positive if test is after or equal to
\* end, zero if test is within the range
compareTimeToRange(test, start, end) ==
  LET t == Round0(test)
      s == Round0(start)
      e == Round0(end)
  IN IF Before(t, s) THEN -1
     ELSE IF Equal(t, e) \/ After(t, e) THEN 1
     ELSE 0

(***************************************************************************)
(* parseTimeRange.  A validTime text is modelled after strings.Split on    *)
(* "/": the first field as what time.Parse(time.RFC3339, .) makes of it    *)
(* (ok and the instant), and the sequence of the remaining fields.         *)
(***************************************************************************)
ZeroTime == [day |-> 0 - 719162, sec |-> 0]     \* time.Time{}: 0001-01-01

RangeError(e) == [err |-> e, start |-> ZeroTime, end |-> ZeroTime]

\* lines 524-528, dur being what parseISO8601Duration returned
RangeFrom(startTime, dur) ==
  IF dur.err # "" THEN RangeError("could not parse duration")
  ELSE [err |-> "", start |-> startTime,
        end |-> applyISO8601Duration(startTime, dur.d)]

parseTimeRange(vt) ==
  IF 1 + Len(vt.rest) # 2 THEN RangeError("malformed time + duration")
  ELSE IF ~vt.instant.ok THEN RangeError("could not parse time")
  ELSE RangeFrom(vt.instant.t, parseISO8601Duration(vt.rest[1]))

VARIABLES
  durInput,     \* the string handed to parseISO8601Duration
  durResult,    \* [done, err, d]: what parseISO8601Duration returned
  validTime,    \* the text handed to parseTimeRange
  rangeResult   \* [done, err, start, end]: what parseTimeRange returned

parseVars == <<durInput, durResult, validTime, rangeResult>>

VARIABLES
  body,                 \* decoded response: property name -> raw JSON block
  requestedProperties,  \* getWeatherData's requestedProperties
  fetched               \* [done, err, properties]: what getWeatherData returned

fetchVars == <<body, requestedProperties, fetched>>

VARIABLES
  weatherData,  \* display's weatherData: property name -> series
  properties,   \* display's properties
  start,        \* display's start, reassigned to its truncation
  end,          \* display's end, reassigned to its truncation
  idx,          \* the cursor map idx
  curr,         \* the hour of the outer loop
  row,          \* the row being built: [at, values, from]
  rows,         \* the rows built so far
  pos,          \* position of the "for _, property := range properties" loop
  pc,           \* position of display
  printed,      \* the table written to standard output
  clock,        \* history: the start and end display was called with
  skipped       \* history: every cursor increment, [property, index, at]

displayVars == <<weatherData, properties, start, end, idx, curr, row, rows, pos,
                 pc, printed, clock, skipped>>

vars == <<parseVars, fetchVars, displayVars>>

NoDurResult == [done |-> FALSE, err |-> "", d |-> ZeroDuration]
NoRangeResult == [done |-> FALSE, err |-> "", start |-> ZeroTime, end |-> ZeroTime]
NoValidTime == [instant |-> [ok |-> FALSE, t |-> ZeroTime], rest |-> <<>>]
NoRow == [at |-> ZeroTime, values |-> <<>>, from |-> <<>>]
NoTable == [header |-> <<>>, lines |-> <<>>]

\* a returned value r, recorded as returned
Returned(r) == [x \in (DOMAIN r) \cup {"done"} |-> IF x = "done" THEN TRUE ELSE r[x]]

\* the variables of an operation that is not running
ParseIdle ==
  /\ durInput = <<>>
  /\ durResult = NoDurResult
  /\ validTime = NoValidTime
  /\ rangeResult = NoRangeResult

FetchIdle ==
  /\ body = <<>>
  /\ requestedProperties = <<>>
  /\ fetched = [done |-> FALSE, err |-> "", properties |-> <<>>]

DisplayIdle ==
  /\ weatherData = <<>>
  /\ properties = <<>>
  /\ start = ZeroTime
  /\ end = ZeroTime
  /\ idx = <<>>
  /\ curr = ZeroTime
  /\ row = NoRow
  /\ rows = <<>>
  /\ pos = 0
  /\ pc = "idle"
  /\ printed = NoTable
  /\ clock = [start |-> ZeroTime, end |-> ZeroTime]
  /\ skipped = {}

(***************************************************************************)
(* Inputs of the duration parser: every string over Alphabet of length at  *)
(* most MaxLen, and longer strings assembled from component texts.         *)
(***************************************************************************)
\* the designators and two of the digits
Alphabet == {"P", "T", "Y", "M", "W", "D", "H", "S", "1", "7"}

ShortStrings == UNION {[1..n -> Alphabet] : n \in 0..MaxLen}

AssembledStrings ==
  { p \o w \o y \o mo \o d \o t \o h \o mi \o sc :
      p \in {<<>>, <<"P">>},
      w \in {<<>>, <<"3", "W">>, <<"9", "9", "9", "9", "W">>},
      y \in {<<>>, <<"1", "Y">>, <<"9", "9", "9", "9", "9", "Y">>},
      mo \in {<<>>, <<"2", "M">>},
      d \in {<<>>, <<"1", "0", "D">>, <<"D">>},
      t \in {<<>>, <<"T">>},
      h \in {<<>>, <<"2", "H">>},
      mi \in {<<>>, <<"3", "0", "M">>},
      sc \in {<<>>, <<"0", "5", "S">>} }

MisorderedStrings ==
  { <<"P">> \o d \o y \o t \o sc \o h :
      d \in {<<>>, <<"4", "D">>},
      y \in {<<>>, <<"1", "Y">>},
      t \in {<<>>, <<"T">>, <<"T", "T">>},
      sc \in {<<>>, <<"6", "S">>},
      h \in {<<>>, <<"8", "H">>} }

DurationStrings == ShortStrings \cup AssembledStrings \cup MisorderedStrings

InitDuration ==
  /\ durInput \in DurationStrings
  /\ durResult = NoDurResult
  /\ validTime = NoValidTime
  /\ rangeResult = NoRangeResult
  /\ FetchIdle
  /\ DisplayIdle

ParseDuration ==
  /\ ~durResult.done
  /\ durResult' = Returned(parseISO8601Duration(durInput))
  /\ UNCHANGED <<durInput, validTime, rangeResult, fetchVars, displayVars>>

(***************************************************************************)
(* Inputs of parseTimeRange.                                               *)
(***************************************************************************)
At(y, m, d, secs) == [day |-> DaysFromCivil(y, m, d), sec |-> secs]

StartInstants ==
  { At(2024, 1, 31, 0), At(2024, 2, 28, 23 * Hour + 30 * Minute),
    At(2023, 12, 31, 22 * Hour), At(2024, 3, 10, 10 * Hour) }

RangeDurations ==
  { <<>>, <<"P">>, <<"P", "T">>, <<"P", "T", "0", "S">>,
    <<"P", "T", "1", "H">>, <<"P", "T", "2", "H">>, <<"P", "T", "3", "0", "M">>,
    <<"P", "1", "D">>, <<"P", "1", "M">>, <<"P", "1", "Y">>, <<"P", "1", "W">>,
    <<"P", "1", "Y", "2", "M", "1", "0", "D", "T", "2", "H", "3", "0", "M">>,
    <<"P", "T", "9", "H">>, <<"P", "T", "1", "0", "H">>, <<"P", "T", "1", "9", "H">>,
    <<"P", "T", "6", "0", "0", "M">>, <<"P", "T", "1", "2", "0", "0", "M">>,
    <<"P", "T", "3", "2", "7", "6", "7", "S">>,
    <<"P", "T", "9", "9", "9", "9", "9", "S">>,
    <<"P", "4", "6", "8", "2", "W">>, <<"P", "9", "9", "9", "9", "W">>,
    <<"P", "9", "9", "9", "9", "9", "Y">>,
    <<"1", "Y">>, <<"P", "3", "W", "1", "D">> }

ValidTimes ==
  { [instant |-> [ok |-> TRUE, t |-> s], rest |-> <<d>>] :
      s \in StartInstants, d \in RangeDurations }
  \cup { [instant |-> [ok |-> FALSE, t |-> ZeroTime], rest |-> <<d>>] :
           d \in {<<"P", "T", "1", "H">>} }
  \cup { [instant |-> [ok |-> TRUE, t |-> s], rest |-> r] :
           s \in StartInstants,
           r \in {<<>>, <<<<"P", "T", "1", "H">>, <<"P", "T", "1", "H">>>>} }

InitRange ==
  /\ durInput = <<>>
  /\ durResult = NoDurResult
  /\ validTime \in ValidTimes
  /\ rangeResult = NoRangeResult
  /\ FetchIdle
  /\ DisplayIdle

ParseTimeRange ==
  /\ ~rangeResult.done
  /\ rangeResult' = Returned(parseTimeRange(validTime))
  /\ UNCHANGED <<durInput, durResult, validTime, fetchVars, displayVars>>

NextDuration == ParseDuration
NextRange == ParseTimeRange
SpecDuration == InitDuration /\ [][NextDuration]_vars
SpecRange == InitRange /\ [][NextRange]_vars

(***************************************************************************)
(* getWeatherData, from the decoded response body on.                      *)
(***************************************************************************)
\* parseUnitOfMeasurement: the conversion unit(unitOfMeasurement)
parseUnitOfMeasurement(unitOfMeasurement) == unitOfMeasurement

\* the comparator handed to sort.Slice
Less(points, i, j) == Before(points[i].StartTime, points[j].EndTime)

Swap(points, i, j) == [points EXCEPT ![i] = points[j], ![j] = points[i]]

\* sort.Slice on fewer than 12 elements is an insertion sort:
\*   for i := a + 1; i < b; i++ {
\*     for j := i; j > a && less(j, j-1); j-- { swap(j, j-1) } }
RECURSIVE InsertDown(_, _)
InsertDown(points, j) ==
  IF j > 1 /\ Less(points, j, j - 1)
  THEN InsertDown(Swap(points, j, j - 1), j - 1)
  ELSE points

RECURSIVE InsertionSort(_, _)
InsertionSort(points, i) ==
  IF i > Len(points) THEN points
  ELSE InsertionSort(InsertDown(points, i), i + 1)

SortSlice(points) == InsertionSort(points, 2)

\* lines 389-398, r being what parseTimeRange returned for the value v
PointFrom(r, uom, v) ==
  [Unit |-> uom, StartTime |-> r.start, EndTime |-> r.end, Value |-> v.Value]

\* the loop "for _, v := range raw.Values", from the i-th value on, r being
\* what parseTimeRange returned for it: [err, points]
RECURSIVE BuildPoints(_, _, _, _)
BuildNext(values, uom, i, points, r) ==
  IF r.err # "" THEN [err |-> "error parsing time range", points |-> <<>>]
  ELSE BuildPoints(values, uom, i + 1, Append(points, PointFrom(r, uom, values[i])))

BuildPoints(values, uom, i, points) ==
  IF i > Len(values) THEN [err |-> "", points |-> points]
  ELSE BuildNext(values, uom, i, points, parseTimeRange(values[i].ValidTime))

FetchError(e) == [err |-> e, properties |-> <<>>]

\* properties[name] = points
Store(props, name, points) ==
  [x \in (DOMAIN props) \cup {name} |-> IF x = name THEN points ELSE props[x]]

\* the loop "for _, name := range requestedProperties", from the n-th name
\* on: [err, properties]
RECURSIVE FetchFrom(_, _, _, _)
FetchNext(bd, requested, n, props, built) ==
  IF built.err # "" THEN FetchError(built.err)
  ELSE FetchFrom(bd, requested, n + 1,
                 Store(props, requested[n], SortSlice(built.points)))

FetchFrom(bd, requested, n, props) ==
  IF n > Len(requested) THEN [err |-> "", properties |-> props]
  ELSE IF requested[n] \notin DOMAIN bd
       THEN FetchError("no data for requested property")
  ELSE IF ~bd[requested[n]].wellFormed
       THEN FetchError("error parsing requested property")
  ELSE FetchNext(bd, requested, n, props,
                 BuildPoints(bd[requested[n]].values,
                             parseUnitOfMeasurement(bd[requested[n]].uom), 1, <<>>))

getWeatherData(bd, requested) == FetchFrom(bd, requested, 1, <<>>)

Base == [day |-> DaysFromCivil(2024, 3, 10), sec |-> 10 * Hour]
\* the instant k half hours after 10:00
T(k) == Add(Base, k * (Hour \div 2))

RawValidTimes ==
  { [instant |-> [ok |-> TRUE, t |-> T(h)], rest |-> <<d>>] :
      h \in {0, 2, 4},
      d \in { <<"P", "T", "1", "H">>, <<"P", "T", "2", "H">>,
              <<"P", "T", "0", "S">> } }
  \cup { [instant |-> [ok |-> TRUE, t |-> T(0)], rest |-> <<<<"1", "Y">>>>] }

\* upstream value lists; the i-th value is 50 + i
RawLists ==
  UNION { { [i \in 1..n |-> [ValidTime |-> f[i], Value |-> 50 + i]] :
              f \in [1..n -> RawValidTimes] } : n \in 0..MaxRaw }

Block(values) == [wellFormed |-> TRUE, uom |-> "wmoUnit:degC", values |-> values]

Bodies ==
  { [x \in {"temperature"} |-> Block(v)] : v \in RawLists }
  \cup { [x \in {"temperature", "dewpoint"} |->
            IF x = "temperature" THEN Block(v)
            ELSE Block(<<[ValidTime |-> [instant |-> [ok |-> TRUE, t |-> T(0)],
                                         rest |-> <<<<"P", "T", "1", "H">>>>],
                          Value |-> 40]>>)] : v \in RawLists }
  \cup { [x \in {"temperature"} |-> [Block(<<>>) EXCEPT !.wellFormed = FALSE]] }

InitFetch ==
  /\ ParseIdle
  /\ DisplayIdle
  /\ body \in Bodies
  /\ requestedProperties \in {<<"temperature">>, <<"temperature", "dewpoint">>}
  /\ fetched = [done |-> FALSE, err |-> "", properties |-> <<>>]

GetWeatherData ==
  /\ ~fetched.done
  /\ fetched' = Returned(getWeatherData(body, requestedProperties))
  /\ UNCHANGED <<body, requestedProperties, parseVars, displayVars>>

NextFetch == GetWeatherData
SpecFetch == InitFetch /\ [][NextFetch]_vars

(***************************************************************************)
(* display.  Positions: "enter" (line 416), "hours" (the test of the outer *)
(* loop, line 430), "props" (the range loop, line 438), "scan" (the test   *)
(* of the inner loop, line 441), "render" (line 466), "done", "panic".      *)
(***************************************************************************)
NoData == [text |-> "No Data", Value |-> 0, Unit |-> ""]
\* fmt.Sprintf("%05.2f %s", p.Value, p.Unit)
FormatCell(p) == [text |-> "%05.2f %s", Value |-> p.Value, Unit |-> p.Unit]

\* the test "!curr.After(end)" of the outer loop, with "<" for "<="
LoopContinuesStrict(c, e) == Before(c, e)

\* the test "!curr.After(end)" of the outer loop
LoopContinues(c, e) == ~After(c, e)

\* the cursor rewound to the first point when the hour is before the point
CursorAfterRewind(cmp, i) == IF cmp > 0 THEN i + 1 ELSE IF cmp < 0 THEN 0 ELSE i

\* the cursor stepping over two points at once
CursorAfterJump(cmp, i) == IF cmp > 0 THEN i + 2 ELSE i

\* the cursor after one pass of the inner loop: "idx[property]++" is reached
\* only when neither break was taken
CursorAfter(cmp, i) == IF cmp > 0 THEN i + 1 ELSE i

Range(f) == {f[x] : x \in DOMAIN f}

\* weatherData[property]: a missing key reads as the nil slice
PointsOf(property) ==
  IF property \in DOMAIN weatherData THEN weatherData[property] ELSE <<>>

\* lines 416-428
DisplayEnter ==
  /\ pc = "enter"
  /\ idx' = [p \in Range(properties) |-> 0]
  /\ start' = Truncate(start, Hour)
  /\ end' = Truncate(end, Hour)
  /\ IF After(start', end')
     THEN pc' = "panic" /\ UNCHANGED <<curr, rows>>
     ELSE pc' = "hours" /\ curr' = start' /\ rows' = <<>>
  /\ UNCHANGED <<weatherData, properties, row, pos, printed, clock, skipped>>

\* line 430, the loop goes on: lines 433-436
HourBegin ==
  /\ pc = "hours"
  /\ LoopContinues(curr, end)
  /\ row' = [at |-> curr, values |-> <<>>, from |-> <<>>]
  /\ pos' = 1
  /\ pc' = "props"
  /\ UNCHANGED <<weatherData, properties, start, end, idx, curr, rows,
                 printed, clock, skipped>>

\* line 430, the loop ends
HoursEnd ==
  /\ pc = "hours"
  /\ ~LoopContinues(curr, end)
  /\ pc' = "render"
  /\ UNCHANGED <<weatherData, properties, start, end, idx, curr, row, rows,
                 pos, printed, clock, skipped>>

\* line 438, next property: line 440
PropertyBegin ==
  /\ pc = "props"
  /\ pos <= Len(properties)
  /\ pc' = "scan"
  /\ UNCHANGED <<weatherData, properties, start, end, idx, curr, row, rows,
                 pos, printed, clock, skipped>>

\* line 438, no property left: line 463 and the step of the outer loop
HourEnd ==
  /\ pc = "props"
  /\ pos > Len(properties)
  /\ rows' = Append(rows, row)
  /\ curr' = Add(curr, Hour)
  /\ pc' = "hours"
  /\ UNCHANGED <<weatherData, properties, start, end, idx, row, pos,
                 printed, clock, skipped>>

\* one pass of the inner loop on the point under the cursor, lines 441-460
ScanPoint(outcome) ==
  /\ pc = "scan"
  /\ LET property == properties[pos]
         points == PointsOf(property)
     IN /\ idx[property] < Len(points)
        /\ LET p == points[idx[property] + 1]
               cmp == compareTimeToRange(curr, p.StartTime, p.EndTime)
           IN /\ outcome = (IF cmp = 0 THEN "covered"
                            ELSE IF cmp < 0 THEN "before" ELSE "after")
              /\ idx' = [idx EXCEPT ![property] = CursorAfter(cmp, @)]
              /\ IF cmp = 0
                 THEN /\ row' = [row EXCEPT
                                   !.values = Append(@, FormatCell(p)),
                                   !.from = Append(@, [pos |-> pos, point |-> idx[property] + 1])]
                      /\ pos' = pos + 1
                      /\ pc' = "props"
                      /\ UNCHANGED skipped
                 ELSE IF cmp < 0
                 THEN /\ row' = [row EXCEPT
                                   !.values = Append(@, NoData),
                                   !.from = Append(@, [pos |-> pos, point |-> 0])]
                      /\ pos' = pos + 1
                      /\ pc' = "props"
                      /\ UNCHANGED skipped
                 ELSE /\ skipped' = skipped \cup
                            {[property |-> property, index |-> idx[property] + 1, at |-> curr]}
                      /\ UNCHANGED <<row, pos, pc>>
  /\ UNCHANGED <<weatherData, properties, start, end, curr, rows, printed, clock>>

ScanCovered == ScanPoint("covered")
ScanBefore == ScanPoint("before")
ScanAfter == ScanPoint("after")

\* line 441, the cursor is at the end of the series: the inner loop ends
ScanExhausted ==
  /\ pc = "scan"
  /\ ~(idx[properties[pos]] < Len(PointsOf(properties[pos])))
  /\ pos' = pos + 1
  /\ pc' = "props"
  /\ UNCHANGED <<weatherData, properties, start, end, idx, curr, row, rows,
                 printed, clock, skipped>>

\* lines 466-481
Render ==
  /\ pc = "render"
  /\ printed' = [header |-> properties,
                 lines |-> [j \in 1..Len(rows) |->
                              [at |-> rows[j].at, values |-> rows[j].values]]]
  /\ pc' = "done"
  /\ UNCHANGED <<weatherData, properties, start, end, idx, curr, row, rows,
                 pos, clock, skipped>>

(***************************************************************************)
(* Inputs of display.  Points lie on the half-hour grid after 10:00; the   *)
(* i-th point of a series carries the value 50 + i.                        *)
(***************************************************************************)
\* <<start, end>> in half hours: empty, half-hour, one-hour and ninety-minute
\* intervals, and one whose end precedes its start
Spans ==
  { <<a, a + n>> : a \in {0, 2, 3, 4}, n \in {0, 2, 3} } \cup { <<3, 4>>, <<2, 0>> }

MakeSeries(f, unit) ==
  [i \in 1..Len(f) |-> [Unit |-> unit, StartTime |-> T(f[i][1]),
                        EndTime |-> T(f[i][2]), Value |-> 50 + i]]

AnySeries == UNION { { MakeSeries(f, "degC") : f \in [1..n -> Spans] } : n \in 0..MaxPts }

FewSeries ==
  { MakeSeries(f, "percent") :
      f \in { <<>>, << <<0, 2>> >>, << <<2, 4>> >>, << <<0, 2>>, <<4, 6>> >>,
              << <<3, 4>>, <<0, 2>> >> } }

Clocks == { [start |-> T(a), end |-> T(b)] : a \in 0..2, b \in 0..MaxHalfHours }

Requests ==
  { [properties |-> <<"temperature">>,
     weatherData |-> [x \in {"temperature"} |-> a]] : a \in AnySeries }
  \cup { [properties |-> <<"temperature", "dewpoint">>,
          weatherData |-> [x \in {"temperature", "dewpoint"} |->
                             IF x = "temperature" THEN a ELSE b]] :
           a \in FewSeries, b \in FewSeries }
  \cup { [properties |-> <<"temperature", "temperature">>,
          weatherData |-> [x \in {"temperature"} |-> a]] : a \in FewSeries }

Init ==
  /\ ParseIdle
  /\ FetchIdle
  /\ \E r \in Requests :
        /\ properties = r.properties
        /\ weatherData = r.weatherData
  /\ clock \in Clocks
  /\ start = clock.start
  /\ end = clock.end
  /\ idx = <<>>
  /\ curr = ZeroTime
  /\ row = NoRow
  /\ rows = <<>>
  /\ pos = 0
  /\ pc = "enter"
  /\ printed = NoTable
  /\ skipped = {}

Next ==
  \/ (DisplayEnter /\ UNCHANGED <<parseVars, fetchVars>>)
  \/ (HourBegin /\ UNCHANGED <<parseVars, fetchVars>>)
  \/ (HoursEnd /\ UNCHANGED <<parseVars, fetchVars>>)
  \/ (PropertyBegin /\ UNCHANGED <<parseVars, fetchVars>>)
  \/ (HourEnd /\ UNCHANGED <<parseVars, fetchVars>>)
  \/ (ScanCovered /\ UNCHANGED <<parseVars, fetchVars>>)
  \/ (ScanBefore /\ UNCHANGED <<parseVars, fetchVars>>)
  \/ (ScanAfter /\ UNCHANGED <<parseVars, fetchVars>>)
  \/ (ScanExhausted /\ UNCHANGED <<parseVars, fetchVars>>)
  \/ (Render /\ UNCHANGED <<parseVars, fetchVars>>)

Spec == Init /\ [][Next]_vars

\* display is one sequential call: a step that can be taken is taken
FairSpec == Spec /\ WF_vars(Next)

(***************************************************************************)
(* The duration grammar, stated as a decomposition of the string.          *)
(***************************************************************************)
IsComp(x, ch) ==
  /\ Len(x) >= 2
  /\ x[Len(x)] = ch
  /\ \A i \in 1..(Len(x) - 1) : x[i] \in Digits
Opt(x, ch) == x = <<>> \/ IsComp(x, ch)

\* decimal value of a digit string
RECURSIVE DigitsValue(_)
DigitsValue(ds) ==
  IF ds = <<>> THEN 0
  ELSE DigitVal(ds[Len(ds)]) + 10 * DigitsValue(SubSeq(ds, 1, Len(ds) - 1))

\* value of a component text <digits><designator> ("" counts 0)
DecVal(x) == IF x = <<>> THEN 0 ELSE DigitsValue(SubSeq(x, 1, Len(x) - 1))

\* the ends b >= a of an optional component <digits><ch> that starts after a
Ends(s, a, ch) == {b \in a..Len(s) : Opt(SubSeq(s, a + 1, b), ch)}

\* the cuts <<e, f>> of the clock part after the "T" at position t into
\* H | M | S parts
ClockCuts(s, t) ==
  UNION { { <<e, f>> : f \in {f \in Ends(s, e, "M") : Len(s) \in Ends(s, f, "S")} } :
            e \in Ends(s, t, "H") }

\* the cuts <<a, b, c, e, f>> of s into P | Y | M | D | T H | M | S parts;
\* e = f = 0 when there is no T block
GeneralCuts(s) ==
  IF Len(s) = 0 \/ s[1] # "P" THEN {}
  ELSE UNION { UNION { UNION {
         IF c = Len(s) THEN {<<a, b, c, 0, 0>>}
         ELSE IF s[c + 1] # "T" THEN {}
         ELSE { <<a, b, c, ef[1], ef[2]>> : ef \in ClockCuts(s, c + 1) } :
           c \in Ends(s, b, "D") } : b \in Ends(s, a, "M") } : a \in Ends(s, 1, "Y") }

InGeneralForm(s) == GeneralCuts(s) # {}
InWeekForm(s) == Len(s) >= 3 /\ s[1] = "P" /\ IsComp(Tail(s), "W")

GeneralValue(s) ==
  LET cut == CHOOSE c \in GeneralCuts(s) : TRUE
      n == Len(s)
  IN [years |-> DecVal(SubSeq(s, 2, cut[1])),
      months |-> DecVal(SubSeq(s, cut[1] + 1, cut[2])),
      days |-> DecVal(SubSeq(s, cut[2] + 1, cut[3])),
      hours |-> IF cut[3] = n THEN 0 ELSE DecVal(SubSeq(s, cut[3] + 2, cut[4])),
      minutes |-> IF cut[3] = n THEN 0 ELSE DecVal(SubSeq(s, cut[4] + 1, cut[5])),
      seconds |-> IF cut[3] = n THEN 0 ELSE DecVal(SubSeq(s, cut[5] + 1, n))]

WeekValue(s) == [ZeroDuration EXCEPT !.days = 7 * DecVal(Tail(s))]

\* the longest run of digits a string may hold for 7 x its value to fit
SafeDigits ==
  CHOOSE n \in 0..IntBits :
    /\ 7 * ((10 ^ n) - 1) <= MaxInt
    /\ 7 * ((10 ^ (n + 1)) - 1) > MaxInt

ShortRuns(s) ==
  \A i \in 1..Len(s) : DigitRunEnd(s, i) - i <= SafeDigits

\* C6: for every string whose digit runs fit the integer type,
\* parseISO8601Duration succeeds exactly on the week form 'P<digits>W'
\* (days = 7 x weeks, every other field 0) and on the general form
\* P[nY][nM][nD][T[nH][nM][nS]] (each present component in its field, every
\* absent field 0), and fails on every other string.
C6_Grammar ==
  (durResult.done /\ ShortRuns(durInput)) =>
     /\ (durResult.err = "") <=> (InWeekForm(durInput) \/ InGeneralForm(durInput))
     /\ InWeekForm(durInput) => durResult.d = WeekValue(durInput)
     /\ InGeneralForm(durInput) => durResult.d = GeneralValue(durInput)
     /\ ~(InWeekForm(durInput) /\ InGeneralForm(durInput))

\* a full general-form string has been parsed into its six fields
C6_Witness ==
  /\ durResult.done
  /\ durInput = <<"P", "1", "Y", "2", "M", "1", "0", "D", "T", "2", "H",
                  "3", "0", "M", "0", "5", "S">>
  /\ durResult.err = ""
  /\ durResult.d = [years |-> 1, months |-> 2, days |-> 10,
                    hours |-> 2, minutes |-> 30, seconds |-> 5]

\* C3 as stated: for every interval parseTimeRange produces, zero-length
\* ones included, start is classified covered and end not covered.
C3_AsStated ==
  (rangeResult.done /\ rangeResult.err = "") =>
     /\ compareTimeToRange(rangeResult.start, rangeResult.start, rangeResult.end) = 0
     /\ compareTimeToRange(rangeResult.end, rangeResult.start, rangeResult.end) > 0

\* C3 amended: start is classified covered exactly when the interval is not
\* empty (start strictly before end); the zero-length interval's single
\* instant start = end is classified not covered (positive); end is
\* classified not covered (positive) whenever it does not precede start.
C3_HalfOpen ==
  (rangeResult.done /\ rangeResult.err = "") =>
     LET s == rangeResult.start
         e == rangeResult.end
     IN /\ (compareTimeToRange(s, s, e) = 0) <=> (s.day < e.day \/ (s.day = e.day /\ s.sec < e.sec))
        /\ (s = e) => compareTimeToRange(s, s, e) > 0
        /\ ~(e.day < s.day \/ (e.day = s.day /\ e.sec < s.sec)) => compareTimeToRange(e, s, e) > 0

\* a zero-length interval and, elsewhere, a proper one have been built
C3_Witness ==
  /\ rangeResult.done /\ rangeResult.err = ""
  /\ validTime.rest = <<<<"P", "T", "0", "S">>>>
  /\ rangeResult.start = rangeResult.end

\* C7 as stated: whenever parseTimeRange succeeds, end does not precede start.
C7_EndNotBeforeStart ==
  (rangeResult.done /\ rangeResult.err = "") =>
     ~Before(rangeResult.end, rangeResult.start)

SortedByStart(points) ==
  \A i, j \in 1..Len(points) :
     i < j => ~Before(points[j].StartTime, points[i].StartTime)

\* C8 as stated: every series getWeatherData stores is sorted ascending by
\* interval start, and on every pair of its points the comparator agrees
\* with comparing start times and never reports both i < j and j < i.
C8_SortedByStart ==
  (fetched.done /\ fetched.err = "") =>
     \A name \in DOMAIN fetched.properties :
        LET points == fetched.properties[name] IN
        /\ SortedByStart(points)
        /\ \A i, j \in 1..Len(points) : (i # j) =>
              /\ Less(points, i, j) <=> Before(points[i].StartTime, points[j].StartTime)
              /\ ~(Less(points, i, j) /\ Less(points, j, i))

(***************************************************************************)
(* Properties of display.                                                  *)
(***************************************************************************)
\* the half-open rule start <= h < end
Covers(p, h) == ~Before(h, p.StartTime) /\ Before(h, p.EndTime)

\* seconds from instant a to instant b
Since(a, b) == (b.day - a.day) * SecondsPerDay + (b.sec - a.sec)

\* the whole hours from the truncated start to the truncated end, inclusive
FirstHour == Truncate(clock.start, Hour)
LastHour == Truncate(clock.end, Hour)
Inverted == Since(FirstHour, LastHour) < 0
HourCount == IF Inverted THEN 0 ELSE (Since(FirstHour, LastHour) \div Hour) + 1
HourAt(j) == Add(FirstHour, (j - 1) * Hour)

\* every row display has built or is building
AllRows == IF pc \in {"props", "scan"} THEN Append(rows, row) ELSE rows

SortedDisjoint(points) ==
  \A i, j \in 1..Len(points) :
     i < j => /\ ~Before(points[j].StartTime, points[i].StartTime)
              /\ ~Before(points[j].StartTime, points[i].EndTime)

\* the cell the alignment contract asks for at hour h
ExpectedCell(points, h) ==
  IF \E i \in 1..Len(points) : Covers(points[i], h)
  THEN FormatCell(points[CHOOSE i \in 1..Len(points) : Covers(points[i], h)])
  ELSE NoData

\* C1 as stated: for one requested property with a sorted, non-overlapping
\* series, the finished table has for every whole hour of the range the value
\* of the covering point, and 'No Data' for every hour no point covers.
C1_AlignedCells ==
  (/\ pc = "done"
   /\ Len(properties) = 1
   /\ SortedDisjoint(PointsOf(properties[1]))) =>
     /\ Len(rows) = HourCount
     /\ \A j \in 1..Len(rows) :
           rows[j].values = <<ExpectedCell(PointsOf(properties[1]), HourAt(j))>>

\* C2 as stated: every finished row carries exactly one cell per requested
\* property, the k-th cell being the one built for the k-th property.
C2_OneCellPerProperty ==
  \A j \in 1..Len(rows) :
     /\ Len(rows[j].values) = Len(properties)
     /\ \A n \in 1..Len(rows[j].from) : rows[j].from[n].pos = n

\* C4: every cursor starts at 0 and no step of display decreases it.
C4_CursorMonotonic ==
  [][/\ (pc = "enter" /\ pc' # "enter") =>
           (DOMAIN idx' = Range(properties) /\ \A p \in DOMAIN idx' : idx'[p] = 0)
     /\ (pc # "enter") =>
           (DOMAIN idx' = DOMAIN idx /\ \A p \in DOMAIN idx : idx'[p] >= idx[p])]_vars

\* a cursor has moved over two points in the course of several hours
C4_Witness ==
  /\ pc = "done"
  /\ Len(rows) >= 3
  /\ \E p \in DOMAIN idx : idx[p] = 2

\* C5: display panics exactly when the truncated start is after the truncated
\* end, and then has built no row; otherwise the finished table has exactly
\* one row per whole hour from truncated start to truncated end, ascending.
C5_RowsPerHour ==
  /\ (pc # "enter") => ((pc = "panic") <=> Inverted)
  /\ (pc = "panic") => (rows = <<>> /\ printed = NoTable)
  /\ (pc \in {"render", "done"}) =>
        /\ Len(rows) = HourCount
        /\ \A j \in 1..Len(rows) : rows[j].at = HourAt(j)
  /\ (pc = "done") =>
        /\ Len(printed.lines) = HourCount
        /\ \A j \in 1..Len(printed.lines) : printed.lines[j].at = HourAt(j)

\* start and end fall in the same hour and exactly one row was built
C5_Witness ==
  /\ pc = "done"
  /\ clock.start # clock.end
  /\ FirstHour = LastHour
  /\ Len(rows) = 1

\* C9: a cursor never exceeds the length of its series, the increments of
\* one run number at most that length, and every run of display ends.
C9_BoundedSkips ==
  /\ [](\A p \in DOMAIN idx :
          /\ idx[p] <= Len(PointsOf(p))
          /\ Cardinality({e \in skipped : e.property = p}) <= Len(PointsOf(p))
          /\ Cardinality({e \in skipped : e.property = p}) = idx[p])
  /\ <>(pc \in {"done", "panic"})

\* a run over several hours has skipped every point of a series
C9_Witness ==
  /\ pc = "done"
  /\ Len(rows) >= 3
  /\ \E p \in DOMAIN idx : idx[p] = Len(PointsOf(p)) /\ idx[p] >= 2
  /\ Cardinality(skipped) >= 2

\* C10: a value cell of the row of hour h comes from a point with
\* start <= h < end, and a skipped point has end <= h when it is skipped and
\* covers no hour of the run from then on.
C10_OnlyCoveringValues ==
  /\ \A j \in 1..Len(AllRows) :
        LET r == AllRows[j] IN
        \A n \in 1..Len(r.values) :
           IF r.from[n].point = 0 THEN r.values[n] = NoData
           ELSE LET p == PointsOf(properties[r.from[n].pos])[r.from[n].point] IN
                /\ r.values[n] = FormatCell(p)
                /\ Covers(p, r.at)
  /\ \A e \in skipped :
        LET p == PointsOf(e.property)[e.index] IN
        /\ ~Before(e.at, p.EndTime)
        /\ \A j \in 1..Len(AllRows) :
              ~Before(AllRows[j].at, e.at) => ~Covers(p, AllRows[j].at)
        /\ (pc \in {"hours", "props", "scan"}) => ~Covers(p, curr)

\* an unsorted series: a point was skipped and a value shown afterwards
C10_Witness ==
  /\ pc = "done"
  /\ ~SortedDisjoint(PointsOf(properties[1]))
  /\ skipped # {}
  /\ \E j \in 1..Len(rows) : \E n \in 1..Len(rows[j].from) :
        /\ rows[j].from[n].point > 0
        /\ \E e \in skipped : Before(e.at, rows[j].at)

=============================================================================
